---- MODULE Spec2Model ----
(***************************************************************************)
(* A model of src/src/app.ts: the project board with its store             *)
(* (ProjectState), the validator, the input form (ProjectInput), the two   *)
(* lanes (ProjectList) and their cards (ProjectItem).                      *)
(*                                                                         *)
(* Text is a sequence of one-character strings, so that length and trim    *)
(* are computed as the code computes them.  A JavaScript number is a       *)
(* record [nan, tenths]: NaN, or the value tenths/10 (so 3 is 30 tenths    *)
(* and 2.5 is 25 tenths).  A Project object is identified by its position  *)
(* in the store's array, which is its reference: objects are created only  *)
(* by addProjects, pushed once and never removed (app.ts:55-62).           *)
(***************************************************************************)
EXTENDS Integers, Sequences, FiniteSets, TLC

VARIABLES
    boot,             \* position in the module's top-level script (app.ts:81, 337-339)
    instance,         \* ProjectState.instance and the constructor runs so far (app.ts:39-43)
    listeners,        \* State.listeners: the lanes whose closures are registered (app.ts:30)
    projects,         \* ProjectState.projects (app.ts:38)
    assignedProjects, \* ProjectList.assignedProjects, per lane: references (app.ts:168)
    cards,            \* the ProjectItem elements in each lane's <ul>: references
    droppable,        \* the lane's <ul> carries the class "droppable"
    fields,           \* the values of the three <input> elements (app.ts:232-234)
    drag,             \* the drag in progress: its source, its DataTransfer, its target
    hist,             \* what the last handler did: its calls, in order
    vArg,             \* the argument of the validator call under study
    vRes              \* the value that call returned

vars == <<boot, instance, listeners, projects, assignedProjects, cards, droppable,
          fields, drag, hist, vArg, vRes>>

-----------------------------------------------------------------------------
(* Bounds of the model *)

MaxProjects == 2

-----------------------------------------------------------------------------
(* enum ProjectStatus, app.ts:1-4 *)

Active == 0
Finished == 1

Lanes == {"active", "finished"}

\* app.ts:205 and 216-217: the status a lane of the given type stands for
LaneStatus(type) == IF type = "active" THEN Active ELSE Finished

-----------------------------------------------------------------------------
(* Text and numbers as JavaScript computes them *)

Str(s) == [type |-> "string", str |-> s, nan |-> FALSE, tenths |-> 0]
Num(t) == [type |-> "number", str |-> <<>>, nan |-> FALSE, tenths |-> t]
Whole(n) == Num(10 * n)
NaN == [type |-> "number", str |-> <<>>, nan |-> TRUE, tenths |-> 0]

IsWhiteSpace(c) == c \in {" ", "\t"}

RECURSIVE TrimStart(_)
TrimStart(s) ==
    IF s = <<>> THEN <<>>
    ELSE IF IsWhiteSpace(Head(s)) THEN TrimStart(Tail(s)) ELSE s

RECURSIVE TrimEnd(_)
TrimEnd(s) ==
    IF s = <<>> THEN <<>>
    ELSE IF IsWhiteSpace(s[Len(s)]) THEN TrimEnd(SubSeq(s, 1, Len(s) - 1)) ELSE s

\* String.prototype.trim
Trim(s) == TrimEnd(TrimStart(s))

Digits == <<"0", "1", "2", "3", "4", "5", "6", "7", "8", "9">>

IsDigit(c) == \E d \in 1..10 : Digits[d] = c

DigitValue(c) == (CHOOSE d \in 1..10 : Digits[d] = c) - 1

AllDigits(s) == \A i \in 1..Len(s) : IsDigit(s[i])

RECURSIVE DigitsValue(_)
DigitsValue(s) ==
    IF s = <<>> THEN 0
    ELSE 10 * DigitsValue(SubSeq(s, 1, Len(s) - 1)) + DigitValue(s[Len(s)])

\* the position of the first "." of s, or 0
DotAt(s) ==
    IF \E i \in 1..Len(s) : s[i] = "."
    THEN CHOOSE i \in 1..Len(s) : s[i] = "." /\ \A j \in 1..(i - 1) : s[j] # "."
    ELSE 0

\* an unsigned decimal literal: digits, digits with a fraction, or a bare
\* fraction; the texts of the model carry at most one fraction digit
UnsignedToNumber(s) ==
    LET dot == DotAt(s)
        whole == IF dot = 0 THEN s ELSE SubSeq(s, 1, dot - 1)
        frac == IF dot = 0 THEN <<>> ELSE SubSeq(s, dot + 1, Len(s))
    IN  IF AllDigits(whole) /\ AllDigits(frac) /\ Len(whole) + Len(frac) > 0 /\ Len(frac) <= 1
        THEN Num(10 * DigitsValue(whole) + DigitsValue(frac))
        ELSE NaN

\* the unary plus of app.ts:269 and 273 applied to a string (StringToNumber):
\* white space is stripped, the empty text is 0, a decimal literal is its
\* value, anything else is NaN
StringToNumber(s) ==
    LET t == Trim(s)
    IN  IF t = <<>> THEN Num(0)
        ELSE IF Head(t) = "-"
             THEN LET u == UnsignedToNumber(Tail(t))
                  IN  IF u.nan THEN NaN ELSE Num(0 - u.tenths)
        ELSE IF Head(t) = "+" THEN UnsignedToNumber(Tail(t))
        ELSE UnsignedToNumber(t)

RECURSIVE NatToString(_)
NatToString(n) ==
    IF n < 10 THEN <<Digits[n + 1]>>
    ELSE NatToString(n \div 10) \o <<Digits[(n % 10) + 1]>>

\* Number.prototype.toString
NumberToString(v) ==
    IF v.nan THEN <<"N", "a", "N">>
    ELSE LET a == IF v.tenths < 0 THEN 0 - v.tenths ELSE v.tenths
             text == NatToString(a \div 10)
                       \o (IF a % 10 = 0 THEN <<>> ELSE <<".", Digits[(a % 10) + 1]>>)
         IN  IF v.tenths < 0 THEN <<"-">> \o text ELSE text

\* value.toString() of app.ts:95, for a string or a number
ValueToString(v) == IF v.type = "string" THEN v.str ELSE NumberToString(v)

\* the relational operators of app.ts:104 and 107 on two numbers
GreaterEq(a, b) == ~a.nan /\ ~b.nan /\ a.tenths >= b.tenths
LessEq(a, b) == ~a.nan /\ ~b.nan /\ a.tenths <= b.tenths

-----------------------------------------------------------------------------
(* validator, app.ts:92-110.  An option that is not given is <<>>, one      *)
(* that is given is <<its value>>.                                          *)

Validatable(value, required, minLength, maxLength, min, max) ==
    [value |-> value, required |-> required, minLength |-> minLength,
     maxLength |-> maxLength, min |-> min, max |-> max]

\* validator with the bounds of min and max exclusive
validator_exclusive(arg) ==
    LET v0 == TRUE
        v1 == IF arg.required # <<>> /\ arg.required[1]
              THEN v0 /\ Len(Trim(ValueToString(arg.value))) # 0 ELSE v0
        v2 == IF arg.minLength # <<>> /\ arg.value.type = "string"
              THEN v1 /\ Len(arg.value.str) >= arg.minLength[1] ELSE v1
        v3 == IF arg.maxLength # <<>> /\ arg.value.type = "string"
              THEN v2 /\ Len(arg.value.str) <= arg.maxLength[1] ELSE v2
        v4 == IF arg.min # <<>> /\ arg.value.type = "number"
              THEN v3 /\ ~LessEq(arg.value, arg.min[1]) ELSE v3
        v5 == IF arg.max # <<>> /\ arg.value.type = "number"
              THEN v4 /\ ~GreaterEq(arg.value, arg.max[1]) ELSE v4
    IN  v5

validator(arg) ==
    LET v0 == TRUE
        v1 == IF arg.required # <<>> /\ arg.required[1]
              THEN v0 /\ Len(Trim(ValueToString(arg.value))) # 0 ELSE v0
        v2 == IF arg.minLength # <<>> /\ arg.value.type = "string"
              THEN v1 /\ Len(arg.value.str) >= arg.minLength[1] ELSE v1
        v3 == IF arg.maxLength # <<>> /\ arg.value.type = "string"
              THEN v2 /\ Len(arg.value.str) <= arg.maxLength[1] ELSE v2
        v4 == IF arg.min # <<>> /\ arg.value.type = "number"
              THEN v3 /\ GreaterEq(arg.value, arg.min[1]) ELSE v3
        v5 == IF arg.max # <<>> /\ arg.value.type = "number"
              THEN v4 /\ LessEq(arg.value, arg.max[1]) ELSE v4
    IN  v5

-----------------------------------------------------------------------------
(* The objects of the page *)

\* class Project, app.ts:17-25
Project(id, title, description, people, status) ==
    [id |-> id, title |-> title, description |-> description,
     people |-> people, status |-> status]

\* Math.random().toString(), app.ts:56: one of finitely many texts, drawn
\* without regard to the ids drawn before
RandomIds == {"0.1", "0.2"}

NoFields == [title |-> <<>>, description |-> <<>>, people |-> <<>>]

\* the arguments of a call of the store, in the shape of a Project: title,
\* description and people for addProjects, id and status for moveProject
NoArgs == [id |-> "", title |-> <<>>, description |-> <<>>, people |-> NaN, status |-> Active]

\* what a handler leaves in hist.trace, in the order it happened: a call of
\* the store with its arguments, a mutation of the store, a call of a
\* listener with the items it was handed, the alert, the clearing of the form
Event(ev, who, items) ==
    [ev |-> ev, who |-> who, items |-> items, args |-> NoArgs, array |-> 0 - 1]

Call(op, args) == [ev |-> op, who |-> "", items |-> <<>>, args |-> args, array |-> 0 - 1]

\* the identity of the array object this.projects, app.ts:38; the arrays
\* that a handler allocates are numbered from 1 in the order of allocation
StoreArray == 0

\* the part of the state the store and its listeners work on
World(ps, as, cs, tr) ==
    [projects |-> ps, assignedProjects |-> as, cards |-> cs, trace |-> tr]

\* the Project objects that a sequence of references points to, now
Deref(w, refs) == [i \in 1..Len(refs) |-> w.projects[refs[i]]]

\* the identity of the next array a handler allocates: slice() is called
\* once before each call of a listener, app.ts:76
NewArray(w) == 1 + Cardinality({k \in 1..Len(w.trace) : w.trace[k].ev = "listener"})

\* a notification that hands over the newest project only
Slice_delta(w) ==
    [array |-> NewArray(w),
     refs |-> IF w.projects = <<>> THEN <<>> ELSE <<Len(w.projects)>>]

\* a notification that hands over this.projects itself
Slice_alias(w) == [array |-> StoreArray, refs |-> [i \in 1..Len(w.projects) |-> i]]

\* this.projects.slice(), app.ts:76: a new array object holding the same
\* references in the same order
Slice(w) == [array |-> NewArray(w), refs |-> [i \in 1..Len(w.projects) |-> i]]

\* renderProjects, app.ts:178-188: the lane's <ul> is emptied, then one
\* ProjectItem per assigned project is appended to it
RECURSIVE AppendItems(_, _)
AppendItems(list, refs) ==
    IF refs = <<>> THEN list
    ELSE AppendItems(Append(list, Head(refs)), Tail(refs))

\* renderProjects that does not empty the <ul> before it appends
renderProjects_noClear(w, type) ==
    [w EXCEPT !.cards[type] = AppendItems(@, w.assignedProjects[type])]

renderProjects(w, type) ==
    [w EXCEPT !.cards[type] = AppendItems(<<>>, w.assignedProjects[type])]

\* the closure a lane registers, app.ts:214-221
listenerFn(w, type, items) ==
    LET relevantProjects ==
            SelectSeq(items.refs, LAMBDA r : w.projects[r].status = LaneStatus(type))
        called == [w EXCEPT !.trace = Append(@,
                      [Event("listener", type, Deref(w, items.refs))
                          EXCEPT !.array = items.array])]
    IN  renderProjects([called EXCEPT !.assignedProjects[type] = relevantProjects], type)

\* updateListeners, app.ts:74-78
RECURSIVE updateListenersFrom(_, _, _)
updateListenersFrom(w, ls, i) ==
    IF i > Len(ls) THEN w
    ELSE updateListenersFrom(listenerFn(w, ls[i], Slice(w)), ls, i + 1)

\* updateListeners that walks the listeners from the last to the first
updateListeners_reversed(w, ls) ==
    updateListenersFrom(w, [i \in 1..Len(ls) |-> ls[Len(ls) + 1 - i]], 1)

updateListeners(w, ls) == updateListenersFrom(w, ls, 1)

\* addProjects with unshift in place of push: the new project goes first
addProjects_unshift(w, ls, id, title, description, people) ==
    LET called == [w EXCEPT !.trace = Append(@, Call("addProjects",
                         [NoArgs EXCEPT !.title = title, !.description = description,
                                        !.people = people]))]
        newProject == Project(id, title, description, people, Active)
        pushed == [called EXCEPT !.projects = <<newProject>> \o @,
                                 !.trace = Append(@, Event("push", "", <<>>))]
    IN  updateListeners(pushed, ls)

\* addProjects, app.ts:54-64; id is the text Math.random().toString() gave
addProjects(w, ls, id, title, description, people) ==
    LET called == [w EXCEPT !.trace = Append(@, Call("addProjects",
                         [NoArgs EXCEPT !.title = title, !.description = description,
                                        !.people = people]))]
        newProject == Project(id, title, description, people, Active)
        pushed == [called EXCEPT !.projects = Append(@, newProject),
                                 !.trace = Append(@, Event("push", "", <<>>))]
    IN  updateListeners(pushed, ls)

\* this.projects.find((el) => el.id === projectId), app.ts:67: the reference
\* of the first match, 0 for undefined
Find(ps, projectId) ==
    IF \E i \in 1..Len(ps) : ps[i].id = projectId
    THEN CHOOSE i \in 1..Len(ps) :
            ps[i].id = projectId /\ \A j \in 1..(i - 1) : ps[j].id # projectId
    ELSE 0

\* moveProject that takes the project out and pushes it again at the end
moveProject_reinserts(w, ls, projectId, newStatus) ==
    LET called == [w EXCEPT !.trace = Append(@, Call("moveProject",
                         [NoArgs EXCEPT !.id = projectId, !.status = newStatus]))]
        project == Find(w.projects, projectId)
        rest == SelectSeq([i \in 1..Len(w.projects) |-> i], LAMBDA r : r # project)
    IN  IF project # 0 /\ w.projects[project].status # newStatus
        THEN updateListeners(
                 [called EXCEPT !.projects =
                                    Append([i \in 1..Len(rest) |-> w.projects[rest[i]]],
                                           [w.projects[project] EXCEPT !.status = newStatus]),
                                !.trace = Append(@, Event("status", "", <<>>))], ls)
        ELSE called

\* moveProject that notifies whether or not it changed anything
moveProject_alwaysNotifies(w, ls, projectId, newStatus) ==
    LET called == [w EXCEPT !.trace = Append(@, Call("moveProject",
                         [NoArgs EXCEPT !.id = projectId, !.status = newStatus]))]
        project == Find(w.projects, projectId)
    IN  IF project # 0 /\ w.projects[project].status # newStatus
        THEN updateListeners(
                 [called EXCEPT !.projects[project].status = newStatus,
                                !.trace = Append(@, Event("status", "", <<>>))], ls)
        ELSE updateListeners(called, ls)

\* moveProject, app.ts:66-72
moveProject(w, ls, projectId, newStatus) ==
    LET called == [w EXCEPT !.trace = Append(@, Call("moveProject",
                         [NoArgs EXCEPT !.id = projectId, !.status = newStatus]))]
        project == Find(w.projects, projectId)
    IN  IF project # 0 /\ w.projects[project].status # newStatus
        THEN updateListeners(
                 [called EXCEPT !.projects[project].status = newStatus,
                                !.trace = Append(@, Event("status", "", <<>>))], ls)
        ELSE called

-----------------------------------------------------------------------------
(* The input form, app.ts:231-293 *)

\* gatherUserInput that validates people without the max of 5
gatherUserInput_noMax(f) ==
    LET title == f.title
        description == f.description
        people == f.people
    IN  IF \/ ~validator(Validatable(Str(title), <<TRUE>>, <<>>, <<>>, <<>>, <<>>))
           \/ ~validator(Validatable(Str(description), <<TRUE>>, <<5>>, <<>>, <<>>, <<>>))
           \/ ~validator(Validatable(StringToNumber(people), <<TRUE>>, <<>>, <<>>,
                                     <<Whole(0)>>, <<>>))
        THEN [isArray |-> FALSE, alert |-> TRUE,
              title |-> <<>>, description |-> <<>>, people |-> NaN]
        ELSE [isArray |-> TRUE, alert |-> FALSE,
              title |-> title, description |-> description,
              people |-> StringToNumber(people)]

\* gatherUserInput, app.ts:261-275: the tuple, or nothing after the alert
gatherUserInput(f) ==
    LET title == f.title
        description == f.description
        people == f.people
    IN  IF \/ ~validator(Validatable(Str(title), <<TRUE>>, <<>>, <<>>, <<>>, <<>>))
           \/ ~validator(Validatable(Str(description), <<TRUE>>, <<5>>, <<>>, <<>>, <<>>))
           \/ ~validator(Validatable(StringToNumber(people), <<TRUE>>, <<>>, <<>>,
                                     <<Whole(0)>>, <<Whole(5)>>))
        THEN [isArray |-> FALSE, alert |-> TRUE,
              title |-> <<>>, description |-> <<>>, people |-> NaN]
        ELSE [isArray |-> TRUE, alert |-> FALSE,
              title |-> title, description |-> description,
              people |-> StringToNumber(people)]

\* clearInputs that forgets the people input
clearInputs_keepsPeople(f) == [f EXCEPT !.title = <<>>, !.description = <<>>]

\* clearInputs, app.ts:277-281
clearInputs(f) == NoFields

-----------------------------------------------------------------------------
(* The state *)

NoDrag ==
    [phase |-> "idle", src |-> 0, types |-> <<>>, text |-> "",
     over |-> "none", accepted |-> FALSE]

NoArg == Validatable(Str(<<>>), <<>>, <<>>, <<>>, <<>>, <<>>)

\* what hist holds after a handler: the handler, the lane or card it ran on,
\* the store and the form as they were before it, and what it did
Hist(handler, lane, card, pre, preFields, trace) ==
    [handler |-> handler, lane |-> lane, card |-> card, payload |-> "", pre |-> pre,
     fields |-> preFields, trace |-> trace]

Quiet(handler, lane, card) == Hist(handler, lane, card, <<>>, NoFields, <<>>)

\* private static instance, not yet assigned, app.ts:39: current is the
\* identity of the object the static field holds (0: none), created counts
\* the runs of the private constructor
NoInstance == [created |-> 0, current |-> 0]

\* a getInstance that constructs on every call
getInstance_alwaysNew(s) == [created |-> s.created + 1, current |-> s.created + 1]

\* ProjectState.getInstance, app.ts:45-52
getInstance(s) ==
    IF s.current # 0
    THEN s
    ELSE [created |-> s.created + 1, current |-> s.created + 1]

Init ==
    /\ boot = 0
    /\ instance = NoInstance
    /\ listeners = <<>>
    /\ projects = <<>>
    /\ assignedProjects = [l \in Lanes |-> <<>>]
    /\ cards = [l \in Lanes |-> <<>>]
    /\ droppable = [l \in Lanes |-> FALSE]
    /\ fields = NoFields
    /\ drag = NoDrag
    /\ hist = Quiet("none", "none", 0)
    /\ vArg = NoArg
    /\ vRes = <<>>

Ready == boot = 4

-----------------------------------------------------------------------------
(* The module's top-level script *)

\* const projectState = ProjectState.getInstance(), app.ts:81 with 45-52
GetInstance ==
    /\ boot = 0
    /\ boot' = 1
    /\ instance' = getInstance(instance)
    \* a constructor run makes new, empty projects and listeners, app.ts:30, 38
    /\ listeners' = IF instance'.created # instance.created THEN <<>> ELSE listeners
    /\ projects' = IF instance'.created # instance.created THEN <<>> ELSE projects
    /\ UNCHANGED <<assignedProjects, cards, droppable, fields, drag, hist, vArg, vRes>>

\* new ProjectInput(), app.ts:337 with 236-255
NewProjectInput ==
    /\ boot = 1
    /\ boot' = 2
    /\ UNCHANGED <<instance, listeners, projects, assignedProjects, cards, droppable,
                   fields, drag, hist, vArg, vRes>>

\* new ProjectList(type), app.ts:338-339 with 170-176 and 209-222: the lane
\* starts with no projects and registers its listener
NewProjectList(type) ==
    /\ boot = (IF type = "active" THEN 2 ELSE 3)
    /\ boot' = boot + 1
    /\ assignedProjects' = [assignedProjects EXCEPT ![type] = <<>>]
    /\ listeners' = Append(listeners, type)
    /\ UNCHANGED <<instance, projects, cards, droppable, fields, drag, hist, vArg, vRes>>

-----------------------------------------------------------------------------
(* The form's events *)

\* the user edits the three inputs; no handler of the program runs
TypeInput(titles, descriptions, peoples) ==
    /\ Ready
    /\ drag.phase = "idle"
    /\ \E t \in titles, d \in descriptions, p \in peoples :
          fields' = [title |-> t, description |-> d, people |-> p]
    /\ fields' # fields
    /\ hist' = Quiet("input", "none", 0)
    /\ UNCHANGED <<boot, instance, listeners, projects, assignedProjects, cards,
                   droppable, drag, vArg, vRes>>

\* handleSubmit, app.ts:283-292, on the form's submit event
handleSubmit ==
    /\ Ready
    /\ drag.phase = "idle"
    /\ LET userInput == gatherUserInput(fields)
           w == World(projects, assignedProjects, cards,
                      IF userInput.alert THEN <<Event("alert", "", <<>>)>> ELSE <<>>)
       IN  IF userInput.isArray
           THEN /\ Len(projects) < MaxProjects
                /\ \E id \in RandomIds :
                      LET added == addProjects(w, listeners, id, userInput.title,
                                               userInput.description, userInput.people)
                      IN  /\ projects' = added.projects
                          /\ assignedProjects' = added.assignedProjects
                          /\ cards' = added.cards
                          /\ fields' = clearInputs(fields)
                          /\ hist' = Hist("submit", "none", 0, projects, fields,
                                          Append(added.trace, Event("clearInputs", "", <<>>)))
           ELSE /\ hist' = Hist("submit", "none", 0, projects, fields, w.trace)
                /\ UNCHANGED <<projects, assignedProjects, cards, fields>>
    /\ UNCHANGED <<boot, instance, listeners, droppable, drag, vArg, vRes>>

-----------------------------------------------------------------------------
(* Drag and drop.  The browser dispatches dragstart at a card, dragover and *)
(* dragleave at the lane under the pointer, drop at a lane only when the    *)
(* lane's last dragover was cancelled, and dragend at the card at the end.  *)

TextPlain == "text/plain"

\* dragStartHandler, app.ts:313-317: setData on the event's empty DataTransfer
dragStartHandler(ps, ref) ==
    [phase |-> "dragging", src |-> ref, types |-> <<TextPlain>>, text |-> ps[ref].id,
     over |-> "none", accepted |-> FALSE]

\* the user starts dragging the k-th card of a lane
DragStart(type, k) ==
    /\ Ready
    /\ drag.phase = "idle"
    /\ k \in 1..Len(cards[type])
    /\ drag' = dragStartHandler(projects, cards[type][k])
    /\ hist' = Quiet("dragstart", type, cards[type][k])
    /\ UNCHANGED <<boot, instance, listeners, projects, assignedProjects, cards,
                   droppable, fields, vArg, vRes>>

\* what can be dragged over the page from elsewhere: a selected text, an
\* empty text, a link (its URL also as text), a file
ForeignPayloads ==
    { [types |-> <<TextPlain>>, text |-> "hello"],
      [types |-> <<TextPlain>>, text |-> ""],
      [types |-> <<"text/uri-list", TextPlain>>, text |-> "http://x/"],
      [types |-> <<"Files">>, text |-> ""] }

\* a drag that starts outside the cards; no handler of the program runs
ForeignDragStart(payload) ==
    /\ Ready
    /\ drag.phase = "idle"
    /\ drag' = [phase |-> "dragging", src |-> 0, types |-> payload.types,
                text |-> payload.text, over |-> "none", accepted |-> FALSE]
    /\ hist' = Quiet("foreign", "none", 0)
    /\ UNCHANGED <<boot, instance, listeners, projects, assignedProjects, cards,
                   droppable, fields, vArg, vRes>>

\* dragOverHandler, app.ts:189-195: whether preventDefault was called, and
\* the lane's marking afterwards
dragOverHandler(dataTransfer, marked) ==
    IF dataTransfer.types # <<>> /\ dataTransfer.types[1] = TextPlain
    THEN [prevented |-> TRUE, droppable |-> TRUE]
    ELSE [prevented |-> FALSE, droppable |-> marked]

\* dragLeaveHandler, app.ts:196-199: the lane's marking afterwards
dragLeaveHandler(marked) == FALSE

\* the pointer is over a lane and the browser dispatches dragover there; when
\* it comes from the other lane, dragleave is dispatched at that lane first
DragOver(type) ==
    /\ Ready
    /\ drag.phase = "dragging"
    /\ LET left == IF drag.over \in Lanes \ {type}
                   THEN [droppable EXCEPT ![drag.over] = dragLeaveHandler(@)]
                   ELSE droppable
           r == dragOverHandler(drag, left[type])
       IN  /\ droppable' = [left EXCEPT ![type] = r.droppable]
           /\ drag' = [drag EXCEPT !.over = type, !.accepted = r.prevented]
    /\ hist' = Quiet("dragover", type, drag.src)
    /\ UNCHANGED <<boot, instance, listeners, projects, assignedProjects, cards,
                   fields, vArg, vRes>>

\* dragleave is dispatched at the lane under the pointer: the pointer leaves
\* the lane, or it passes from one element of the lane to another
DragLeave(type, stays) ==
    /\ Ready
    /\ drag.phase = "dragging"
    /\ drag.over = type
    /\ droppable' = [droppable EXCEPT ![type] = dragLeaveHandler(@)]
    /\ drag' = IF stays THEN drag ELSE [drag EXCEPT !.over = "none", !.accepted = FALSE]
    /\ hist' = Quiet("dragleave", type, drag.src)
    /\ UNCHANGED <<boot, instance, listeners, projects, assignedProjects, cards,
                   fields, vArg, vRes>>

\* dropHandler, app.ts:200-207
dropHandler(w, ls, type, dataTransfer) ==
    LET projectId == dataTransfer.text
    IN  moveProject(w, ls, projectId, IF type = "active" THEN Active ELSE Finished)

\* the user releases the pointer over a lane that accepted the drag
Drop(type) ==
    /\ Ready
    /\ drag.phase = "dragging"
    /\ drag.over = type
    /\ drag.accepted
    /\ LET w == dropHandler(World(projects, assignedProjects, cards, <<>>),
                            listeners, type, drag)
       IN  /\ projects' = w.projects
           /\ assignedProjects' = w.assignedProjects
           /\ cards' = w.cards
           /\ hist' = [Hist("drop", type, drag.src, projects, NoFields, w.trace)
                          EXCEPT !.payload = drag.text]
    /\ drag' = IF drag.src = 0 THEN NoDrag
               ELSE [NoDrag EXCEPT !.phase = "dropped", !.src = drag.src]
    /\ UNCHANGED <<boot, instance, listeners, droppable, fields, vArg, vRes>>

\* dragEndHandler, app.ts:319-322: console.log only.  The drag of a card
\* ends after its drop, or it is abandoned: then the browser dispatches
\* dragleave at the lane under the pointer before dragend
DragEnd ==
    /\ Ready
    /\ drag.phase \in {"dragging", "dropped"}
    /\ drag.src # 0
    /\ droppable' = IF drag.over \in Lanes
                    THEN [droppable EXCEPT ![drag.over] = dragLeaveHandler(@)]
                    ELSE droppable
    /\ drag' = NoDrag
    /\ hist' = Quiet("dragend", "none", drag.src)
    /\ UNCHANGED <<boot, instance, listeners, projects, assignedProjects, cards,
                   fields, vArg, vRes>>

\* a drag from elsewhere is abandoned, or released where nothing accepts it
ForeignDragEnd ==
    /\ Ready
    /\ drag.phase = "dragging"
    /\ drag.src = 0
    /\ droppable' = IF drag.over \in Lanes
                    THEN [droppable EXCEPT ![drag.over] = dragLeaveHandler(@)]
                    ELSE droppable
    /\ drag' = NoDrag
    /\ hist' = Quiet("foreignend", "none", 0)
    /\ UNCHANGED <<boot, instance, listeners, projects, assignedProjects, cards,
                   fields, vArg, vRes>>

-----------------------------------------------------------------------------
(* The specifications *)

\* what the user types in the runs that follow the whole board
Titles == { <<>>, <<"a">> }
Descriptions == { <<"a", "b", "c", "d", "e">> }
Peoples == { <<>>, <<"3">> }

Boot ==
    \/ GetInstance
    \/ NewProjectInput
    \/ \E type \in Lanes : NewProjectList(type)

Next ==
    \/ Boot
    \/ TypeInput(Titles, Descriptions, Peoples)
    \/ handleSubmit
    \/ \E type \in Lanes : \E k \in 1..MaxProjects : DragStart(type, k)
    \/ \E payload \in ForeignPayloads : ForeignDragStart(payload)
    \/ \E type \in Lanes : DragOver(type)
    \/ \E type \in Lanes : \E stays \in BOOLEAN : DragLeave(type, stays)
    \/ \E type \in Lanes : Drop(type)
    \/ DragEnd
    \/ ForeignDragEnd

Spec == Init /\ [][Next]_vars

\* what the user types in the runs that follow the form alone
FormTitles == { <<>>, <<" ">>, <<"a">> }
FormDescriptions ==
    { <<>>, <<"a", "b", "c", "d">>, <<"a", "b", "c", "d", "e">>, <<" ", " ", " ", " ", " ">> }
FormPeoples ==
    { <<>>, <<" ">>, <<"0">>, <<" ", "5", " ">>, <<"6">>, <<"-", "1">>, <<"x">>,
      <<"2", ".", "5">> }

NextForm ==
    \/ Boot
    \/ TypeInput(FormTitles, FormDescriptions, FormPeoples)
    \/ handleSubmit

SpecForm == Init /\ [][NextForm]_vars

-----------------------------------------------------------------------------
(* The board in a document that may lack the "single-project" template.    *)
(* The lanes and the form are built from other templates, so the script    *)
(* starts as usual; a render that has a card to build then fails in the    *)
(* Component constructor, app.ts:136-141, and the TypeError leaves the     *)
(* listener, updateListeners and the store's operation uncaught.           *)

\* what document.getElementById("single-project") can give: the template or null
Documents == {[singleProject |-> TRUE], [singleProject |-> FALSE]}

Thrown(w) == \E k \in 1..Len(w.trace) : w.trace[k].ev = "throw"

\* the lane's listener, app.ts:214-221 with 178-188 and 305-306: without the
\* template the <ul> is emptied and the first new ProjectItem throws
listenerFnIn(w, type, items, document) ==
    LET relevantProjects ==
            SelectSeq(items.refs, LAMBDA r : w.projects[r].status = LaneStatus(type))
    IN  IF document.singleProject \/ relevantProjects = <<>>
        THEN listenerFn(w, type, items)
        ELSE [w EXCEPT !.assignedProjects[type] = relevantProjects,
                       !.cards[type] = <<>>,
                       !.trace = @ \o <<[Event("listener", type, Deref(w, items.refs))
                                            EXCEPT !.array = items.array],
                                        Event("throw", type, <<>>)>>]

\* updateListeners, app.ts:74-78: no try, so a throw ends the loop
RECURSIVE updateListenersInFrom(_, _, _, _)
updateListenersInFrom(w, ls, i, document) ==
    IF i > Len(ls) \/ Thrown(w) THEN w
    ELSE updateListenersInFrom(listenerFnIn(w, ls[i], Slice(w), document), ls, i + 1,
                               document)

updateListenersIn(w, ls, document) == updateListenersInFrom(w, ls, 1, document)

\* addProjects, app.ts:54-64
addProjectsIn(w, ls, id, title, description, people, document) ==
    LET called == [w EXCEPT !.trace = Append(@, Call("addProjects",
                         [NoArgs EXCEPT !.title = title, !.description = description,
                                        !.people = people]))]
        newProject == Project(id, title, description, people, Active)
        pushed == [called EXCEPT !.projects = Append(@, newProject),
                                 !.trace = Append(@, Event("push", "", <<>>))]
    IN  updateListenersIn(pushed, ls, document)

\* moveProject, app.ts:66-72
moveProjectIn(w, ls, projectId, newStatus, document) ==
    LET called == [w EXCEPT !.trace = Append(@, Call("moveProject",
                         [NoArgs EXCEPT !.id = projectId, !.status = newStatus]))]
        project == Find(w.projects, projectId)
    IN  IF project # 0 /\ w.projects[project].status # newStatus
        THEN updateListenersIn(
                 [called EXCEPT !.projects[project].status = newStatus,
                                !.trace = Append(@, Event("status", "", <<>>))],
                 ls, document)
        ELSE called

\* handleSubmit, app.ts:283-292: a throw out of addProjects skips clearInputs
handleSubmitIn(document) ==
    /\ Ready
    /\ drag.phase = "idle"
    /\ LET userInput == gatherUserInput(fields)
           w == World(projects, assignedProjects, cards,
                      IF userInput.alert THEN <<Event("alert", "", <<>>)>> ELSE <<>>)
       IN  IF userInput.isArray
           THEN /\ Len(projects) < MaxProjects
                /\ \E id \in RandomIds :
                      LET added == addProjectsIn(w, listeners, id, userInput.title,
                                                 userInput.description, userInput.people,
                                                 document)
                      IN  /\ projects' = added.projects
                          /\ assignedProjects' = added.assignedProjects
                          /\ cards' = added.cards
                          /\ fields' = IF Thrown(added) THEN fields ELSE clearInputs(fields)
                          /\ hist' = Hist("submit", "none", 0, projects, fields,
                                          IF Thrown(added) THEN added.trace
                                          ELSE Append(added.trace,
                                                      Event("clearInputs", "", <<>>)))
           ELSE /\ hist' = Hist("submit", "none", 0, projects, fields, w.trace)
                /\ UNCHANGED <<projects, assignedProjects, cards, fields>>
    /\ UNCHANGED <<boot, instance, listeners, droppable, drag, vArg, vRes>>

\* dropHandler, app.ts:200-207, on a drop
DropIn(type, document) ==
    /\ Ready
    /\ drag.phase = "dragging"
    /\ drag.over = type
    /\ drag.accepted
    /\ LET w == moveProjectIn(World(projects, assignedProjects, cards, <<>>), listeners,
                              drag.text, IF type = "active" THEN Active ELSE Finished,
                              document)
       IN  /\ projects' = w.projects
           /\ assignedProjects' = w.assignedProjects
           /\ cards' = w.cards
           /\ hist' = [Hist("drop", type, drag.src, projects, NoFields, w.trace)
                          EXCEPT !.payload = drag.text]
    /\ drag' = IF drag.src = 0 THEN NoDrag
               ELSE [NoDrag EXCEPT !.phase = "dropped", !.src = drag.src]
    /\ UNCHANGED <<boot, instance, listeners, droppable, fields, vArg, vRes>>

NextFailure ==
    \/ Boot
    \/ TypeInput(Titles, Descriptions, Peoples)
    \/ \E document \in Documents : handleSubmitIn(document)
    \/ \E type \in Lanes : \E k \in 1..MaxProjects : DragStart(type, k)
    \/ \E payload \in ForeignPayloads : ForeignDragStart(payload)
    \/ \E type \in Lanes : DragOver(type)
    \/ \E type \in Lanes : \E stays \in BOOLEAN : DragLeave(type, stays)
    \/ \E type \in Lanes : \E document \in Documents : DropIn(type, document)
    \/ DragEnd
    \/ ForeignDragEnd

SpecFailure == Init /\ [][NextFailure]_vars

\* the arguments validator is studied on
ValidatorValues ==
    { Str(<<>>), Str(<<" ">>), Str(<<"h", "e", "l", "l">>), Str(<<"h", "e", "l", "l", "o">>),
      Str(<<" ", "a", " ">>), Str(<<"h", "e", "l", "l", "o", "!">>),
      Whole(0), Whole(3), Whole(5), Whole(7), Num(25), Num(51), Whole(0 - 1), NaN }

ValidatorArgs ==
    { Validatable(v, r, mnl, mxl, mn, mx) :
        v \in ValidatorValues, r \in {<<>>, <<TRUE>>, <<FALSE>>},
        mnl \in {<<>>, <<0>>, <<5>>}, mxl \in {<<>>, <<5>>},
        mn \in {<<>>, <<Whole(0)>>}, mx \in {<<>>, <<Whole(5)>>} }

InitValidator ==
    /\ boot = 0
    /\ instance = NoInstance
    /\ listeners = <<>>
    /\ projects = <<>>
    /\ assignedProjects = [l \in Lanes |-> <<>>]
    /\ cards = [l \in Lanes |-> <<>>]
    /\ droppable = [l \in Lanes |-> FALSE]
    /\ fields = NoFields
    /\ drag = NoDrag
    /\ hist = Quiet("none", "none", 0)
    /\ vArg \in ValidatorArgs
    /\ vRes = <<>>

\* one call of validator
Validate ==
    /\ vRes = <<>>
    /\ vRes' = <<validator(vArg)>>
    /\ UNCHANGED <<boot, instance, listeners, projects, assignedProjects, cards,
                   droppable, fields, drag, hist, vArg>>

NextValidator == Validate

SpecValidator == InitValidator /\ [][NextValidator]_vars

-----------------------------------------------------------------------------
(* What the claims speak of *)

Statuses == {Active, Finished}

OtherLane(type) == IF type = "active" THEN "finished" ELSE "active"

InSeq(x, seq) == \E i \in 1..Len(seq) : seq[i] = x

\* the calls of listeners a trace holds, in order
ListenerEvents(tr) == SelectSeq(tr, LAMBDA e : e.ev = "listener")

\* the positions in a trace of the events of one kind
Positions(tr, ev) == {k \in 1..Len(tr) : tr[k].ev = ev}

\* the last handler called addProjects / moveProject
CalledAdd == Positions(hist.trace, "addProjects") # {}
CalledMove == Positions(hist.trace, "moveProject") # {}

\* the last handler was the drop of a card (not of something foreign)
CardDropped == hist.handler = "drop" /\ hist.card # 0

-----------------------------------------------------------------------------
(* C1: addProjects(title, description, people) makes the store one project *)
(* longer: the new project is the last one, it is Active and has the given *)
(* title, description and people, and every project stored before keeps    *)
(* its position and all its fields.                                        *)
C1_AddAppendsOne ==
    \A k \in Positions(hist.trace, "addProjects") :
        LET given == hist.trace[k].args
            new == projects[Len(projects)]
        IN  /\ Len(projects) = Len(hist.pre) + 1
            /\ SubSeq(projects, 1, Len(hist.pre)) = hist.pre
            /\ new.status = Active
            /\ new.title = given.title
            /\ new.description = given.description
            /\ new.people = given.people

\* addProjects has run on a store that held a Finished project
C1_Witness ==
    /\ CalledAdd
    /\ \E i \in 1..Len(hist.pre) : hist.pre[i].status = Finished

(* C2: no two projects of the store have the same id. *)
C2_IdsUnique ==
    \A i, j \in 1..Len(projects) : i # j => projects[i].id # projects[j].id

(* C3: the drop of the card of project X on a lane whose status differs    *)
(* from X's sets X's status to the lane's, changes nothing else in the     *)
(* store, and leaves X's card out of the lane it came from and in the lane *)
(* it was dropped on.                                                      *)
C3_DropMovesTheCard ==
    (CardDropped /\ hist.pre[hist.card].status # LaneStatus(hist.lane)) =>
        /\ projects = [hist.pre EXCEPT ![hist.card].status = LaneStatus(hist.lane)]
        /\ ~InSeq(hist.card, cards[OtherLane(hist.lane)])
        /\ InSeq(hist.card, cards[hist.lane])

\* moveProject called twice in a row on the present store, the trace emptied
\* in between
MoveOnce(id, newStatus) ==
    moveProject(World(projects, assignedProjects, cards, <<>>), listeners, id, newStatus)
MoveTwice(id, newStatus) ==
    moveProject([MoveOnce(id, newStatus) EXCEPT !.trace = <<>>], listeners, id, newStatus)

(* C4: moveProject is idempotent.  For a stored project whose status       *)
(* differs from newStatus, the first moveProject(id, newStatus) calls each *)
(* subscriber once and the second calls none and leaves the store as the   *)
(* first left it; and a moveProject or a drop whose target status is the   *)
(* project's own status changes nothing and notifies nobody.               *)
C4_MoveIdempotent ==
    /\ \A i \in 1..Len(projects) : \A newStatus \in Statuses :
          LET id == projects[i].id
              first == MoveOnce(id, newStatus)
              second == MoveTwice(id, newStatus)
          IN  IF projects[i].status # newStatus
              THEN /\ Len(ListenerEvents(first.trace)) = Len(listeners)
                   /\ ListenerEvents(second.trace) = <<>>
                   /\ second.projects = first.projects
              ELSE /\ ListenerEvents(first.trace) = <<>>
                   /\ first.projects = projects
    /\ (CardDropped /\ hist.pre[hist.card].status = LaneStatus(hist.lane)) =>
          /\ projects = hist.pre
          /\ ListenerEvents(hist.trace) = <<>>

(* C5: a moveProject whose id matches no stored project (a drop whose      *)
(* payload is empty or is no project's id) calls no subscriber and leaves  *)
(* the store and both lanes as they were.                                  *)
C5_UnknownIdIsNoOp ==
    [][(hist'.handler = "drop" /\ Find(projects, hist'.payload) = 0) =>
          /\ projects' = projects
          /\ assignedProjects' = assignedProjects
          /\ cards' = cards
          /\ ListenerEvents(hist'.trace) = <<>>
          /\ Positions(hist'.trace, "moveProject") # {}]_vars

\* a payload that is no project's id was dropped on a board with projects
C5_Witness ==
    /\ hist.handler = "drop"
    /\ CalledMove
    /\ Find(hist.pre, hist.payload) = 0
    /\ Len(hist.pre) > 0

-----------------------------------------------------------------------------
\* the three checks of the form, each by validator
TitlePasses(f) == validator(Validatable(Str(f.title), <<TRUE>>, <<>>, <<>>, <<>>, <<>>))
DescriptionPasses(f) ==
    validator(Validatable(Str(f.description), <<TRUE>>, <<5>>, <<>>, <<>>, <<>>))
PeoplePasses(f) ==
    validator(Validatable(StringToNumber(f.people), <<TRUE>>, <<>>, <<>>,
                          <<Whole(0)>>, <<Whole(5)>>))

Alerted == Positions(hist.trace, "alert") # {}

(* C6: a submit has exactly one of two outcomes.  All three fields pass    *)
(* validation, one project with the entered title, description and the     *)
(* number the people field reads as is appended, no warning is shown and   *)
(* the three fields are cleared; or some field fails, the warning is       *)
(* shown, the store is as before, no subscriber is called and the fields   *)
(* keep what was entered.                                                  *)
C6_SubmitAddsOrWarns ==
    hist.handler = "submit" =>
        LET f == hist.fields
        IN  IF TitlePasses(f) /\ DescriptionPasses(f) /\ PeoplePasses(f)
            THEN /\ Len(projects) = Len(hist.pre) + 1
                 /\ SubSeq(projects, 1, Len(hist.pre)) = hist.pre
                 /\ projects[Len(projects)].title = f.title
                 /\ projects[Len(projects)].description = f.description
                 /\ projects[Len(projects)].people = StringToNumber(f.people)
                 /\ ~Alerted
                 /\ fields = NoFields
            ELSE /\ Alerted
                 /\ projects = hist.pre
                 /\ ListenerEvents(hist.trace) = <<>>
                 /\ fields = f

\* a submit of " 5 " people was accepted on a store that held a project
C6_Witness ==
    /\ hist.handler = "submit"
    /\ CalledAdd
    /\ hist.fields.people = <<" ", "5", " ">>
    /\ Len(hist.pre) > 0

(* C7: a submit is rejected, with the warning and without a new project,   *)
(* when the people field is empty or white space, is not a number, or is   *)
(* a number below 0 or above 5, and when the title is empty or the         *)
(* description is shorter than 5 characters.                               *)
C7_SubmitRejectsBadFields ==
    LET f == hist.fields
        n == StringToNumber(f.people)
    IN  (/\ hist.handler = "submit"
         /\ \/ Trim(f.people) = <<>>
            \/ n.nan
            \/ n.tenths < 0
            \/ n.tenths > 50
            \/ f.title = <<>>
            \/ Len(f.description) < 5)
        => (Alerted /\ projects = hist.pre)

\* true exactly when every given constraint that applies to the value's type
\* is satisfied
Satisfies(arg) ==
    /\ (arg.required = <<TRUE>>) => Trim(ValueToString(arg.value)) # <<>>
    /\ arg.value.type = "string" =>
          /\ \A m \in {arg.minLength[i] : i \in DOMAIN arg.minLength} :
                Len(arg.value.str) >= m
          /\ \A m \in {arg.maxLength[i] : i \in DOMAIN arg.maxLength} :
                Len(arg.value.str) <= m
    /\ arg.value.type = "number" =>
          /\ \A m \in {arg.min[i] : i \in DOMAIN arg.min} :
                ~arg.value.nan /\ arg.value.tenths >= m.tenths
          /\ \A m \in {arg.max[i] : i \in DOMAIN arg.max} :
                ~arg.value.nan /\ arg.value.tenths <= m.tenths

(* C8: validator returns true exactly when every given constraint that     *)
(* applies to the value's type is satisfied, the bounds inclusive; a        *)
(* minLength or maxLength with a number and a min or max with a string     *)
(* never change the result.  {value: "", required} is false, {value:       *)
(* "hello", required, minLength: 5} is true, {value: 3, min: 0, max: 5} is *)
(* true and {value: 7, min: 0, max: 5} is false.                           *)
C8_ValidatorMeetsConstraints ==
    /\ vRes # <<>> => vRes[1] = Satisfies(vArg)
    /\ vRes # <<>> =>
          vRes[1] = validator(
              IF vArg.value.type = "number"
              THEN [vArg EXCEPT !.minLength = <<>>, !.maxLength = <<>>]
              ELSE [vArg EXCEPT !.min = <<>>, !.max = <<>>])
    /\ ~validator(Validatable(Str(<<>>), <<TRUE>>, <<>>, <<>>, <<>>, <<>>))
    /\ validator(Validatable(Str(<<"h", "e", "l", "l", "o">>), <<TRUE>>, <<5>>, <<>>, <<>>, <<>>))
    /\ validator(Validatable(Whole(3), <<>>, <<>>, <<>>, <<Whole(0)>>, <<Whole(5)>>))
    /\ ~validator(Validatable(Whole(7), <<>>, <<>>, <<>>, <<Whole(0)>>, <<Whole(5)>>))

\* validator returned true for the number 5 at its upper bound, given a
\* minLength that its text would not meet
C8_Witness ==
    /\ vRes = <<TRUE>>
    /\ vArg.value = Whole(5)
    /\ vArg.max = <<Whole(5)>>
    /\ vArg.minLength = <<5>>
    /\ vArg.required = <<TRUE>>

\* the last handler ran addProjects, or a moveProject that found its project
\* in another status
StoreChanging ==
    \/ CalledAdd
    \/ \E k \in Positions(hist.trace, "moveProject") :
          LET project == Find(hist.pre, hist.trace[k].args.id)
          IN  project # 0 /\ hist.pre[project].status # hist.trace[k].args.status

(* C9: when addProjects or a status-changing moveProject runs, every        *)
(* registered subscriber is called exactly once, in the order of           *)
(* registration (the active lane, then the finished lane), after the store *)
(* was changed and before the operation returns.                           *)
C9_NotifiesAllInOrder ==
    StoreChanging =>
        LET tr == hist.trace
            calls == ListenerEvents(tr)
        IN  /\ [i \in 1..Len(calls) |-> calls[i].who] = listeners
            /\ listeners = <<"active", "finished">>
            /\ \A k \in Positions(tr, "listener") :
                  /\ \E m \in Positions(tr, "push") \cup Positions(tr, "status") : m < k
                  /\ \A c \in Positions(tr, "clearInputs") : k < c

\* a drop changed the status of a project
C9_Witness ==
    /\ hist.handler = "drop"
    /\ Positions(hist.trace, "status") # {}
    /\ Len(ListenerEvents(hist.trace)) = 2

(* C10: every notification hands each subscriber the store's whole project *)
(* sequence as it is then: as long as the store and with its projects in   *)
(* insertion order, never a part of it.                                    *)
C10_NotificationIsWholeStore ==
    \A k \in Positions(hist.trace, "listener") :
        /\ Len(hist.trace[k].items) = Len(projects)
        /\ hist.trace[k].items = projects

\* a subscriber was handed a sequence holding projects of both statuses
C10_Witness ==
    \E k \in Positions(hist.trace, "listener") :
        LET items == hist.trace[k].items
        IN  /\ Len(items) >= 2
            /\ \E i, j \in 1..Len(items) :
                  items[i].status = Active /\ items[j].status = Finished


-----------------------------------------------------------------------------
\* the references of the stored projects of one status, in the store's order
OfStatus(ps, status) ==
    SelectSeq([i \in 1..Len(ps) |-> i], LAMBDA r : ps[r].status = status)

(* C11: once a submit or a drop has run, the two lanes partition the       *)
(* store.  Each lane's assigned projects, and its cards, are exactly the   *)
(* stored projects of the lane's status in insertion order, one card per   *)
(* project, so every project is in exactly one lane exactly once; a        *)
(* project moved away and back is at its creation-order position again.    *)
C11_LanesPartitionStore ==
    /\ \A type \in Lanes :
          /\ assignedProjects[type] = OfStatus(projects, LaneStatus(type))
          /\ cards[type] = OfStatus(projects, LaneStatus(type))
    /\ \A r \in 1..Len(projects) :
          Cardinality({<<type, k>> \in Lanes \X (1..Len(projects)) :
                          k <= Len(cards[type]) /\ cards[type][k] = r}) = 1

\* the first of two projects came back from the finished lane and its card
\* stands before the card of the second again
C11_Witness ==
    /\ hist.handler = "drop"
    /\ hist.lane = "active"
    /\ Len(hist.pre) = 2
    /\ hist.pre[1].status = Finished
    /\ hist.pre[2].status = Active
    /\ cards["active"] = <<1, 2>>


(* C12: a drop returns the lane to the idle state.  After a drop was       *)
(* handled, the lane no longer carries the "droppable" marking that a      *)
(* dragover put on it, whether or not the drop changed a status.           *)
C12_DropClearsDroppable ==
    hist.handler = "drop" => ~droppable[hist.lane]


(* C13: every project of the store has a people value that is a positive   *)
(* integer, at least 1.                                                    *)
C13_PeoplePositiveInteger ==
    \A i \in 1..Len(projects) :
        /\ ~projects[i].people.nan
        /\ projects[i].people.tenths >= 10
        /\ projects[i].people.tenths % 10 = 0

(* C13 as amended: every project of the store has a people value that is   *)
(* a number from 0 to 5 inclusive, never NaN; it can be 0 and it need not  *)
(* be an integer.                                                          *)
C13_PeopleInRange ==
    \A i \in 1..Len(projects) :
        /\ projects[i].people.type = "number"
        /\ ~projects[i].people.nan
        /\ projects[i].people.tenths >= 0
        /\ projects[i].people.tenths <= 50

\* the store holds a project of 5 people, typed as " 5 ", and one of 2.5
C13_Witness ==
    /\ \E i \in 1..Len(projects) : projects[i].people = Whole(5)
    /\ \E i \in 1..Len(projects) : projects[i].people = Num(25)


\* the handlers that never call the store
StoreFreeHandlers == {"dragstart", "dragover", "dragleave", "dragend"}

(* C14: the project sequence is changed by addProjects and moveProject     *)
(* only.  It grows by appending and nothing is removed or reordered; the   *)
(* id, title, description and people of a stored project never change;     *)
(* a status changes through moveProject only; and the dragstart,           *)
(* dragover, dragleave and dragend handlers and a rejected submit leave    *)
(* the store as it was and notify nobody.                                  *)
C14_StoreChangesOnlyByItsOperations ==
    [][/\ Len(projects') \in {Len(projects), Len(projects) + 1}
       /\ \A i \in 1..Len(projects) :
             /\ i <= Len(projects')
             /\ projects'[i].id = projects[i].id
             /\ projects'[i].title = projects[i].title
             /\ projects'[i].description = projects[i].description
             /\ projects'[i].people = projects[i].people
             /\ projects'[i].status # projects[i].status =>
                   Positions(hist'.trace, "moveProject") # {}
       /\ Len(projects') > Len(projects) => Positions(hist'.trace, "addProjects") # {}
       /\ (\/ hist'.handler \in StoreFreeHandlers
           \/ hist'.handler = "submit" /\ Positions(hist'.trace, "alert") # {}) =>
             /\ projects' = projects
             /\ assignedProjects' = assignedProjects
             /\ cards' = cards
             /\ ListenerEvents(hist'.trace) = <<>>]_vars

\* a drop moved the first of two projects and left the second as it was
C14_Witness ==
    /\ hist.handler = "drop"
    /\ Len(projects) = 2
    /\ Len(hist.pre) = 2
    /\ projects[1].status # hist.pre[1].status
    /\ projects[2] = hist.pre[2]
    /\ projects[2].id # projects[1].id


(* C15: every store operation is atomic for its caller.  When addProjects  *)
(* or moveProject has finished, by returning or by passing on a failure    *)
(* raised in a subscriber, either the change is in the sequence and every  *)
(* registered subscriber was called with the new sequence, or the sequence *)
(* is as before and no subscriber was called.                              *)
C15_StoreOperationAtomic ==
    (CalledAdd \/ CalledMove) =>
        LET calls == ListenerEvents(hist.trace)
        IN  IF projects # hist.pre
            THEN /\ [i \in 1..Len(calls) |-> calls[i].who] = listeners
                 /\ \A i \in 1..Len(calls) : calls[i].items = projects
            ELSE calls = <<>>


(* C16: a dragover on a lane suppresses the default and marks the lane     *)
(* "droppable" whenever "text/plain" is among the types of the payload,    *)
(* and leaves the lane's marking and the default as they were when the     *)
(* payload carries no text.                                                *)
C16_DragOverAcceptsAnyText ==
    [][hist'.handler = "dragover" =>
          IF InSeq(TextPlain, drag.types)
          THEN drag'.accepted /\ droppable'[hist'.lane]
          ELSE ~drag'.accepted /\ droppable'[hist'.lane] = droppable[hist'.lane]]_vars


(* C17: each call of a subscriber gets a copy of the project sequence of   *)
(* its own.  The array it is handed is neither the store's array nor the   *)
(* array handed to another subscriber, so appending to it, removing from   *)
(* it or reordering it changes neither the store's sequence nor what       *)
(* another subscriber is handed.                                           *)
C17_EachListenerOwnCopy ==
    \A k \in Positions(hist.trace, "listener") :
        /\ hist.trace[k].array # StoreArray
        /\ \A j \in Positions(hist.trace, "listener") \ {k} :
              hist.trace[j].array # hist.trace[k].array
        /\ hist.trace[k].items = projects

\* both lanes were handed an array of two projects
C17_Witness ==
    /\ Cardinality(Positions(hist.trace, "listener")) = 2
    /\ \A k \in Positions(hist.trace, "listener") :
          Len(hist.trace[k].items) = 2 /\ hist.trace[k].array > StoreArray


(* C18: one ProjectState is ever constructed: the first getInstance call  *)
(* creates it, and a further call in any later state returns the same     *)
(* object and constructs nothing.  The list of subscribers only grows at  *)
(* its end, and once the script has run it holds the active lane's and    *)
(* the finished lane's subscriber, two in total, for ever.                *)
C18_OneInstanceTwoListeners ==
    /\ [](/\ instance.created <= 1
          /\ boot >= 1 => instance = [created |-> 1, current |-> 1]
          /\ instance.current # 0 => getInstance(instance) = instance
          /\ Ready => listeners = <<"active", "finished">>)
    /\ [][/\ Len(listeners') >= Len(listeners)
          /\ SubSeq(listeners', 1, Len(listeners)) = listeners
          /\ instance.current # 0 => instance' = instance]_vars

\* both lanes are subscribed and have been notified of a stored project
C18_Witness ==
    /\ Ready
    /\ instance.current = 1
    /\ Len(listeners) = 2
    /\ projects # <<>>
    /\ Cardinality(Positions(hist.trace, "listener")) = 2

====
